---- MODULE Spec2Model ----
(***************************************************************************)
(* Session lifecycle of the IndexedDB test harness: openDb, the            *)
(* IndexedDbWrapper state machine and its close barrier                    *)
(* (src/src/run_the_test.ts), driven by go / MainUiCallbacksImpl           *)
(* (src/src/browser/index.ts).                                             *)
(*                                                                         *)
(* The store (the browser's IndexedDB database 'f6b48yt8wc') is the        *)
(* environment: it serves open requests one at a time, fires               *)
(* versionchange / blocked / upgradeneeded / success / error, runs the     *)
(* upgrade transaction, refuses transaction() on a connection whose close  *)
(* is pending and finishes a closing connection once its transactions are  *)
(* done.  Each action is one browser task: the native event, the listener  *)
(* the code registered for it and every promise continuation (microtask)   *)
(* that the listener makes runnable.  The log sink and the result of a     *)
(* close() call are outputs: sess[r].log and sess[r].last hold what the    *)
(* last task wrote for session r.                                          *)
(***************************************************************************)
EXTENDS Integers, Sequences, FiniteSets, TLC

\* ---------------------------------------------------------------- bounds
MaxRuns == 2          \* runTest() clicks (each makes one session)
MaxVersion == 1       \* small target versions next to IDB_VERSION

\* ---------------------------------------------------------------- constants
IDB_VERSION == 66

Runs == 1..MaxRuns
TargetVersions == (1..MaxVersion) \cup {IDB_VERSION}
NoTxn == [run |-> 0, oldVersion |-> 0, oldStores |-> {}, failed |-> FALSE]
NoOtherPage == [req |-> "none", version |-> 0, blocked |-> FALSE]

VARIABLES
  dbVersion,            \* version of the store (0: the store does not exist yet)
  objectStores,         \* names of the containers in the store
  upgradeTxn,           \* the running upgrade transaction, or NoTxn
  openQueue,            \* open requests not yet finished, in arrival order
  otherPage,            \* open request / connection of another page on the same store
  sess,                 \* per run: open request, promise, connection, wrapper, close calls
  abortController,      \* MainUiCallbacksImpl.abortController (0: null)
  runButtonEnabled,     \* ui.setRunTestButtonEnabled
  cancelButtonEnabled   \* ui.setCancelTestButtonEnabled

vars == <<dbVersion, objectStores, upgradeTxn, openQueue, otherPage, sess,
          abortController, runButtonEnabled, cancelButtonEnabled>>

\* ---------------------------------------------------------------- data
NoState == [name |-> "none"]

ClosedState_Reopened == [name |-> "opened", initialDbVersion |-> 0]

\* new IndexedDbWrapperClosedState()
ClosedState == [name |-> "closed"]

OpenedState_Stale(version) == [name |-> "opened", initialDbVersion |-> version - 1]

\* new IndexedDbWrapperOpenedState(db): initialDbVersion = db.version
OpenedState(version) == [name |-> "opened", initialDbVersion |-> version]

ContainerName_Fixed(version) == <<"ost6hhg47t_", IDB_VERSION>>

\* `ost6hhg47t_${version}`
ContainerName(version) == <<"ost6hhg47t_", version>>

NoCall == [caller |-> "none", status |-> "none", error |-> "none", repeat |-> FALSE]

DbListeners == {"error", "close", "abort", "versionchange"}

InitSess ==
  [pc |-> "idle", goResult |-> "none",
   version |-> 0, opens |-> 0, req |-> "none", reqError |-> "none", oldVersion |-> 0,
   promise |-> "pending", promiseError |-> "none",
   conn |-> "none", connVersion |-> 0, listeners |-> {},
   state |-> NoState, constructed |-> 0, created |-> <<>>,
   settleCalls |-> 0, upgrades |-> 0, blocked |-> 0,
   calls |-> <<>>, txns |-> <<>>, nativeCloses |-> 0,
   everCalled |-> FALSE, last |-> NoCall,
   aborted |-> FALSE, abortResolved |-> 0,
   log |-> <<>>]

Log(s, entry) == [s EXCEPT !.log = Append(@, entry)]

\* ---------------------------------------------------------------- go / runTheTest
GoFinish_NoErrorLog(s, outcome) ==
  [Log(s, <<"go", "Test completed">>) EXCEPT !.pc = "done", !.goResult = outcome]

\* go(): the catch block logs the error, the finally block re-enables the
\* Run Test button (see Finished), then completion is logged.
GoFinish(s, outcome) ==
  LET s1 == IF outcome = "caught" THEN Log(s, <<"go", "ERROR">>) ELSE s
  IN  [Log(s1, <<"go", "Test completed">>) EXCEPT !.pc = "done", !.goResult = outcome]

Finished(r) == sess'[r].pc = "done" /\ sess[r].pc # "done"

\* ---------------------------------------------------------------- close()
IsClosed_Never(state) == FALSE

\* if (this.#state.name === 'closed') return;
IsClosed(state) == state.name = "closed"

\* this.#state.db and this.#state.initialDbVersion (undefined on a closed state).
DbOf(s) == IF s.state.name = "opened" THEN s.conn ELSE "undefined"

InitialDbVersionOf(s) ==
  IF s.state.name = "opened" THEN s.state.initialDbVersion ELSE "undefined"

\* IDBDatabase.transaction(name): InvalidStateError once close is pending,
\* NotFoundError for an unknown container.
TransactionError(db, name, stores) ==
  IF db = "undefined" THEN "TypeError"
  ELSE IF db # "open" THEN "InvalidStateError"
  ELSE IF name \notin stores THEN "NotFoundError"
  ELSE "none"

BarrierAfterExecutor_Resolved == "resolved"

\* The executor of the barrier promise registers listeners and calls
\* db.close(); it does not call resolve() itself.
BarrierAfterExecutor == "pending"

\* The transaction events whose listener calls resolve().
BarrierEvents_NoComplete == {"abort", "error"}

BarrierEvents == {"abort", "complete", "error"}

\* After the await: this.#state = new IndexedDbWrapperClosedState(); log finished.
AfterBarrier(s, i) ==
  [Log(s, <<"IDBDatabase", "close() finished">>)
     EXCEPT !.state = ClosedState, !.calls[i].status = "resolved"]

NativeClose_Missing(s) == s

\* db.close(): the connection's close is pending from now on.
NativeClose(s) == [s EXCEPT !.nativeCloses = @ + 1, !.conn = "closePending"]

Result(s, caller, status, error) ==
  [s EXCEPT !.everCalled = TRUE,
            !.last = [caller |-> caller, status |-> status, error |-> error,
                      repeat |-> s.everCalled]]

CloseCall_SwallowsThrow(s, stores, caller) ==
  IF IsClosed(s.state)
  THEN Result(s, caller, "returned", "none")
  ELSE LET s1  == Log(s, <<"IDBDatabase", "close() starting">>)
           err == TransactionError(DbOf(s), ContainerName(InitialDbVersionOf(s)), stores)
       IN  IF err # "none"
           THEN Result([Log(s1, <<"IDBDatabase", "close() finished">>)
                          EXCEPT !.state = ClosedState], caller, "resolved", "none")
           ELSE NativeClose(
                  [Result(s1, caller, "waiting", "none") EXCEPT
                     !.txns = Append(@, "live"),
                     !.calls = Append(@, [caller |-> caller, status |-> "waiting",
                                           txn |-> Len(s1.txns) + 1])])

\* The synchronous part of one close() call, up to its first await.
CloseCall(s, stores, caller) ==
  IF IsClosed(s.state)
  THEN Result(s, caller, "returned", "none")
  ELSE LET s1  == Log(s, <<"IDBDatabase", "close() starting">>)
           err == TransactionError(DbOf(s), ContainerName(InitialDbVersionOf(s)), stores)
       IN  IF err # "none"
           THEN Result(s1, caller, "rejected", err)
           ELSE LET s2 == NativeClose(
                            [Result(s1, caller, "waiting", "none") EXCEPT
                               !.txns = Append(@, "live"),
                               !.calls = Append(@, [caller |-> caller, status |-> "waiting",
                                                     txn |-> Len(s1.txns) + 1])])
                IN  IF BarrierAfterExecutor = "resolved"
                    THEN [AfterBarrier(s2, Len(s2.calls)) EXCEPT !.last.status = "resolved"]
                    ELSE s2

\* runTheTest: await idb.close(), then return (or throw) into go().
DriverClose(s, stores) ==
  LET s1 == CloseCall(s, stores, "driver")
      st == s1.last.status
  IN  IF st = "waiting" THEN [s1 EXCEPT !.pc = "close"]
      ELSE IF st = "rejected" THEN GoFinish(s1, "caught")
      ELSE GoFinish(s1, "ok")

\* Continuation of the close() call that was waiting on the barrier.
ResolveCall(s, i) ==
  LET s1 == AfterBarrier(s, i)
  IN  IF s.calls[i].caller = "driver" THEN GoFinish(s1, "ok") ELSE s1

AfterAbort_NoWait(s, stores) ==
  IF s.pc = "abortWait" THEN DriverClose(s, stores) ELSE s

\* runTheTest: await abortPromise, then close.
AfterAbort(s, stores) ==
  IF s.pc = "abortWait" /\ s.aborted THEN DriverClose(s, stores) ELSE s

Abort_RejectsRun(s) ==
  IF s.aborted THEN s
  ELSE LET s1 == [s EXCEPT !.aborted = TRUE, !.abortResolved = @ + 1]
       IN  IF s.pc = "openDb" THEN GoFinish(s1, "caught") ELSE s1

Abort_Ignored(s) == s

\* AbortController.abort(): the 'abort' listener of go() ({once: true})
\* resolves abortPromise; aborting an aborted controller does nothing.
Abort(s) ==
  IF s.aborted THEN s
  ELSE [s EXCEPT !.aborted = TRUE, !.abortResolved = @ + 1]

\* ---------------------------------------------------------------- listeners
\* The four listeners the IndexedDbWrapper constructor registers: log only.
DbEventHandler_ClosesOnVersionChange(s, kind) ==
  IF kind \in s.listeners
  THEN [Log(s, <<"IDBDatabase", kind>>)
          EXCEPT !.state = IF kind = "versionchange" THEN ClosedState ELSE @,
                 !.conn = IF kind = "versionchange" THEN "closed" ELSE @,
                 !.nativeCloses = IF kind = "versionchange" THEN @ + 1 ELSE @]
  ELSE s

DbEventHandler(s, kind) ==
  IF kind \in s.listeners THEN Log(s, <<"IDBDatabase", kind>>) ELSE s

\* resolve() / reject() of the promise openDb returns: only the first call settles it.
Settle(s, to) ==
  [s EXCEPT !.promise = IF @ = "pending" THEN to ELSE @, !.settleCalls = @ + 1]

OnError_NoReject(s, error) ==
  Log(s, <<"openDbRequest", "error">>)

OnError_OtherError(s, error) ==
  LET s1 == [Settle(Log(s, <<"openDbRequest", "error">>), "rejected")
               EXCEPT !.promiseError = IF s.promise = "pending" THEN "Error" ELSE @]
  IN  IF s.promise = "pending" THEN GoFinish(s1, "caught") ELSE s1

\* openDbRequest 'error' listener: log, reject(error); runTheTest then
\* throws into go().
OnError(s, error) ==
  LET s1 == [Settle(Log(s, <<"openDbRequest", "error">>), "rejected")
               EXCEPT !.promiseError = IF s.promise = "pending" THEN error ELSE @]
  IN  IF s.promise = "pending" THEN GoFinish(s1, "caught") ELSE s1

\* openDbRequest 'success' listener: log, resolve(new IndexedDbWrapper(id, db));
\* runTheTest then awaits abortPromise and, when it is already resolved, closes.
OnSuccess(s, stores) ==
  LET s1 == [Settle(Log(s, <<"openDbRequest", "success">>), "resolved")
               EXCEPT !.state = OpenedState(s.connVersion),
                      !.constructed = @ + 1,
                      !.listeners = DbListeners]
  IN  IF s.promise = "pending"
      THEN AfterAbort([s1 EXCEPT !.pc = "abortWait"], stores)
      ELSE s1

OnBlocked_Reject(s) ==
  GoFinish([Settle(Log(s, <<"openDbRequest", "blocked">>), "rejected")
              EXCEPT !.blocked = @ + 1, !.promiseError = "blocked"], "caught")

\* openDbRequest 'blocked' listener: log only.
OnBlocked(s) == [Log(s, <<"openDbRequest", "blocked">>) EXCEPT !.blocked = @ + 1]

UpgradeContainerVersion_Old(oldVersion, newVersion) == oldVersion

\* db.version inside the upgradeneeded listener is the new version.
UpgradeContainerVersion(oldVersion, newVersion) == newVersion

\* ---------------------------------------------------------------- state machine
\* The sessions at the start of a task: nothing logged, no close() result yet.
Fresh == [r \in Runs |-> [sess[r] EXCEPT !.log = <<>>, !.last = NoCall]]

Init ==
  /\ dbVersion = 0
  /\ objectStores = {}
  /\ upgradeTxn = NoTxn
  /\ openQueue = <<>>
  /\ otherPage = NoOtherPage
  /\ sess = [r \in Runs |-> InitSess]
  /\ abortController = 0
  /\ runButtonEnabled = TRUE
  /\ cancelButtonEnabled = FALSE

\* finally { ui.setRunTestButtonEnabled(true) } of every go() that ends in this task.
Buttons(run, cancel) ==
  /\ runButtonEnabled' = IF \E r \in Runs : Finished(r) THEN TRUE ELSE run
  /\ cancelButtonEnabled' = cancel

StoreUnchanged == UNCHANGED <<dbVersion, objectStores, upgradeTxn, otherPage>>

\* go(): log, buttons, abortPromise, runTheTest -> openDb(version): log and
\* window.indexedDB.open(name, version).
GoStart(s, version) ==
  [Log(Log(s, <<"go", "Test Starting">>), <<"openDbRequest", "started">>)
     EXCEPT !.pc = "openDb", !.version = version, !.opens = @ + 1, !.req = "queued"]

\* MainUiCallbacksImpl.runTest(): abort the previous controller, make a new
\* one, start go(); the aborted run's continuation runs after this callback.
RunTest ==
  \E r \in Runs, v \in TargetVersions :
    /\ sess[r].pc = "idle"
    /\ \A q \in Runs : q < r => sess[q].pc # "idle"
    /\ LET prev == abortController
           s0 == IF prev # 0 THEN [Fresh EXCEPT ![prev] = Abort(@)] ELSE Fresh
           s1 == [s0 EXCEPT ![r] = GoStart(@, v)]
       IN  sess' = IF prev # 0
                   THEN [s1 EXCEPT ![prev] = AfterAbort(@, objectStores)]
                   ELSE s1
    /\ abortController' = r
    /\ openQueue' = Append(openQueue, r)
    /\ Buttons(FALSE, TRUE)
    /\ StoreUnchanged

\* MainUiCallbacksImpl.cancelTest(): this.abortController?.abort(...).
CancelTest ==
  /\ abortController # 0
  /\ sess' = [Fresh EXCEPT ![abortController] = AfterAbort(Abort(@), objectStores)]
  /\ Buttons(runButtonEnabled, cancelButtonEnabled)
  /\ UNCHANGED <<abortController, openQueue>>
  /\ StoreUnchanged

\* A close() call made by another holder of the wrapper.
ExtraClose(r) ==
  /\ sess[r].state # NoState
  /\ sess' = [Fresh EXCEPT ![r] = CloseCall(@, objectStores, "extra")]
  /\ UNCHANGED <<abortController, openQueue, runButtonEnabled, cancelButtonEnabled>>
  /\ StoreUnchanged

\* Requests are served in arrival order; a waiting request of the other page
\* arrived when the queue was empty and is served first.
Serving(r) == openQueue # <<>> /\ Head(openQueue) = r /\ otherPage.req # "waiting"

OthersOf(r) == Runs \ {r}

\* The store refuses a version below its own: error event with VersionError.
OpenVersionError(r) ==
  /\ Serving(r) /\ sess[r].req = "queued"
  /\ sess[r].version < dbVersion
  /\ sess' = [Fresh EXCEPT ![r] =
                OnError([@ EXCEPT !.req = "error", !.reqError = "VersionError",
                                  !.oldVersion = dbVersion], "VersionError")]
  /\ openQueue' = Tail(openQueue)
  /\ Buttons(runButtonEnabled, cancelButtonEnabled)
  /\ UNCHANGED abortController
  /\ StoreUnchanged

\* The store is already at the requested version: success without upgrade.
OpenSameVersion(r) ==
  /\ Serving(r) /\ sess[r].req = "queued"
  /\ sess[r].version = dbVersion
  /\ sess' = [Fresh EXCEPT ![r] =
                OnSuccess([@ EXCEPT !.req = "success", !.oldVersion = dbVersion,
                                    !.conn = "open", !.connVersion = dbVersion],
                          objectStores)]
  /\ openQueue' = Tail(openQueue)
  /\ Buttons(runButtonEnabled, cancelButtonEnabled)
  /\ UNCHANGED abortController
  /\ StoreUnchanged

\* The store is below the requested version: versionchange is fired at every
\* open connection whose close is not pending; if a connection is still not
\* closed after that, blocked is fired at the request.
OpenVersionChange(r) ==
  /\ Serving(r) /\ sess[r].req = "queued"
  /\ sess[r].version > dbVersion
  /\ sess' = [q \in Runs |->
                IF q = r
                THEN LET s1 == [Fresh[r] EXCEPT !.req = "waiting", !.oldVersion = dbVersion]
                     IN  IF \/ \E o \in OthersOf(r) : sess[o].conn \in {"open", "closePending"}
                            \/ otherPage.req = "open"
                         THEN OnBlocked(s1)
                         ELSE s1
                ELSE IF sess[q].conn = "open"
                     THEN DbEventHandler(Fresh[q], "versionchange")
                     ELSE Fresh[q]]
  /\ UNCHANGED <<abortController, openQueue, runButtonEnabled, cancelButtonEnabled>>
  /\ StoreUnchanged

\* Every other connection is closed: the upgrade transaction starts, the
\* store takes the new version and upgradeneeded is fired; the listener logs
\* and calls db.createObjectStore(`ost6hhg47t_${db.version}`), which throws
\* ConstraintError (aborting the upgrade) if the name exists.
UpgradeNeeded(r) ==
  /\ Serving(r) /\ sess[r].req = "waiting"
  /\ \A o \in OthersOf(r) : sess[o].conn \in {"none", "closed"}
  /\ otherPage.req # "open"
  /\ LET new  == sess[r].version
         name == ContainerName(UpgradeContainerVersion(dbVersion, new))
         dup  == name \in objectStores
     IN  /\ upgradeTxn' = [run |-> r, oldVersion |-> dbVersion,
                           oldStores |-> objectStores, failed |-> dup]
         /\ dbVersion' = new
         /\ objectStores' = objectStores \cup {name}
         /\ sess' = [Fresh EXCEPT ![r] =
                       [Log(@, <<"openDbRequest", "upgradeneeded">>)
                          EXCEPT !.req = "upgrade", !.conn = "open", !.connVersion = new,
                                 !.upgrades = @ + 1,
                                 !.created = Append(@, name)]]
  /\ UNCHANGED <<abortController, openQueue, otherPage, runButtonEnabled, cancelButtonEnabled>>

\* The upgrade transaction commits and success is fired.
UpgradeCommit(r) ==
  /\ Serving(r) /\ sess[r].req = "upgrade"
  /\ upgradeTxn.run = r /\ ~upgradeTxn.failed
  /\ upgradeTxn' = NoTxn
  /\ sess' = [Fresh EXCEPT ![r] = OnSuccess([@ EXCEPT !.req = "success"], objectStores)]
  /\ openQueue' = Tail(openQueue)
  /\ Buttons(runButtonEnabled, cancelButtonEnabled)
  /\ UNCHANGED <<abortController, dbVersion, objectStores, otherPage>>

\* The upgrade transaction aborts (listener exception or store failure): the
\* store rolls back version and containers, closes the connection and fires
\* error with AbortError.
UpgradeAbort(r) ==
  /\ Serving(r) /\ sess[r].req = "upgrade"
  /\ upgradeTxn.run = r
  /\ upgradeTxn' = NoTxn
  /\ dbVersion' = upgradeTxn.oldVersion
  /\ objectStores' = upgradeTxn.oldStores
  /\ sess' = [Fresh EXCEPT ![r] =
                OnError([@ EXCEPT !.req = "error", !.reqError = "AbortError",
                                  !.conn = "closed"], "AbortError")]
  /\ openQueue' = Tail(openQueue)
  /\ Buttons(runButtonEnabled, cancelButtonEnabled)
  /\ UNCHANGED <<abortController, otherPage>>

\* A closing connection is closed once none of its transactions is running.
SettleConn(s) ==
  IF s.conn = "closePending" /\ \A t \in 1..Len(s.txns) : s.txns[t] \in {"complete", "abort"}
  THEN [s EXCEPT !.conn = "closed"]
  ELSE s

CallOf(s, t) == CHOOSE i \in 1..Len(s.calls) : s.calls[i].txn = t

TxnEvent_EveryListenerContinues(s, t, event) ==
  LET s1 == [s EXCEPT !.txns[t] = event]
      s2 == IF event = "abort" THEN Log(s1, <<"IDBDatabase", "close transaction abort">>)
            ELSE s1
      s3 == IF event \in BarrierEvents THEN ResolveCall(s2, CallOf(s, t)) ELSE s2
      s4 == IF event \in {"abort", "error"} THEN DbEventHandler(s3, event) ELSE s3
  IN  SettleConn(s4)

\* One event of the close transaction t: the transaction listener (abort
\* also logs), the continuation of close() if this event resolves the
\* barrier, then the event bubbling to the connection's listener.
TxnEvent(s, t, event) ==
  LET s1 == [s EXCEPT !.txns[t] = event]
      s2 == IF event = "abort" THEN Log(s1, <<"IDBDatabase", "close transaction abort">>)
            ELSE s1
      i  == CallOf(s, t)
      s3 == IF event \in BarrierEvents /\ s2.calls[i].status = "waiting"
            THEN ResolveCall(s2, i)
            ELSE s2
      s4 == IF event \in {"abort", "error"} THEN DbEventHandler(s3, event) ELSE s3
  IN  SettleConn(s4)

TxnStep(r, t, event) ==
  /\ sess' = [Fresh EXCEPT ![r] = TxnEvent(@, t, event)]
  /\ Buttons(runButtonEnabled, cancelButtonEnabled)
  /\ UNCHANGED <<abortController, openQueue>>
  /\ StoreUnchanged

\* The close transaction commits: complete is fired at it.
TxnComplete(r) ==
  \E t \in 1..Len(sess[r].txns) :
    /\ sess[r].txns[t] = "live"
    /\ TxnStep(r, t, "complete")

\* The close transaction fails: error is fired at it and bubbles to the
\* connection; its abort may follow.
TxnError(r) ==
  \E t \in 1..Len(sess[r].txns) :
    /\ sess[r].txns[t] = "live"
    /\ TxnStep(r, t, "error")

\* The close transaction is aborted (also after error): abort is fired at it
\* and bubbles to the connection.
TxnAbort(r) ==
  \E t \in 1..Len(sess[r].txns) :
    /\ sess[r].txns[t] \in {"live", "error"}
    /\ TxnStep(r, t, "abort")

\* The store closes an open connection on its own (storage cleared, database
\* deleted): the connection is closed and close is fired at it.
ForceClose(r) ==
  /\ sess[r].state # NoState /\ sess[r].conn = "open"
  /\ sess' = [Fresh EXCEPT ![r] = DbEventHandler([@ EXCEPT !.conn = "closed"], "close")]
  /\ UNCHANGED <<abortController, openQueue, runButtonEnabled, cancelButtonEnabled>>
  /\ StoreUnchanged

\* An error or abort event bubbling to the open connection, or the
\* versionchange the store fires at it for an open request of another page.
ConnNotify(r) ==
  \E kind \in {"error", "abort", "versionchange"} :
    /\ sess[r].state # NoState /\ sess[r].conn = "open"
    /\ sess' = [Fresh EXCEPT ![r] = DbEventHandler(@, kind)]
    /\ UNCHANGED <<abortController, openQueue, runButtonEnabled, cancelButtonEnabled>>
    /\ StoreUnchanged

\* Another page of the same origin, built with the next IDB_VERSION, opens
\* the store while no request of this page is queued: versionchange is fired
\* at every open connection of this page, and blocked at the other page's
\* request if a connection is still not closed after that.
OtherPageOpen ==
  /\ otherPage.req = "none" /\ openQueue = <<>>
  /\ sess' = [q \in Runs |->
                IF sess[q].conn = "open"
                THEN DbEventHandler(Fresh[q], "versionchange")
                ELSE Fresh[q]]
  /\ otherPage' = [req |-> "waiting", version |-> dbVersion + 1,
                   blocked |-> \E q \in Runs : sess'[q].conn \in {"open", "closePending"}]
  /\ UNCHANGED <<dbVersion, objectStores, upgradeTxn, openQueue,
                 abortController, runButtonEnabled, cancelButtonEnabled>>

\* Every connection of this page is closed: the other page's upgrade runs
\* (its upgradeneeded listener creates the container of its version) and its
\* request succeeds.
OtherPageSuccess ==
  /\ otherPage.req = "waiting"
  /\ \A q \in Runs : sess[q].conn \in {"none", "closed"}
  /\ dbVersion' = otherPage.version
  /\ objectStores' = objectStores \cup {ContainerName(otherPage.version)}
  /\ otherPage' = [otherPage EXCEPT !.req = "open"]
  /\ sess' = Fresh
  /\ UNCHANGED <<upgradeTxn, openQueue, abortController, runButtonEnabled, cancelButtonEnabled>>

\* The other page's test is cancelled and its connection is closed.
OtherPageClose ==
  /\ otherPage.req = "open"
  /\ otherPage' = [otherPage EXCEPT !.req = "closed"]
  /\ sess' = Fresh
  /\ UNCHANGED <<dbVersion, objectStores, upgradeTxn, openQueue,
                 abortController, runButtonEnabled, cancelButtonEnabled>>

\* What the page and the store do by themselves.
ProgramNext ==
  \/ RunTest
  \/ CancelTest
  \/ \E r \in Runs : OpenVersionError(r)
  \/ \E r \in Runs : OpenSameVersion(r)
  \/ \E r \in Runs : OpenVersionChange(r)
  \/ \E r \in Runs : UpgradeNeeded(r)
  \/ \E r \in Runs : UpgradeCommit(r)
  \/ \E r \in Runs : UpgradeAbort(r)
  \/ \E r \in Runs : TxnComplete(r)
  \/ \E r \in Runs : TxnError(r)
  \/ \E r \in Runs : TxnAbort(r)
  \/ \E r \in Runs : ForceClose(r)
  \/ \E r \in Runs : ConnNotify(r)

\* The page, the store and any further caller of close() on a wrapper.
Next ==
  \/ ProgramNext
  \/ \E r \in Runs : ExtraClose(r)

Spec == Init /\ [][Next]_vars

\* The page as shipped: runTheTest is the only caller of close().
ProgramSpec == Init /\ [][ProgramNext]_vars

\* The page as shipped next to another page on the same store.
PagesNext ==
  \/ ProgramNext
  \/ OtherPageOpen
  \/ OtherPageSuccess
  \/ OtherPageClose

PagesSpec == Init /\ [][PagesNext]_vars

\* A store that does not fail: no aborted upgrade, no connection closed by
\* the store, no failing close transaction.
StoreStep(r) ==
  \/ OpenVersionError(r)
  \/ OpenSameVersion(r)
  \/ OpenVersionChange(r)
  \/ UpgradeNeeded(r)
  \/ UpgradeCommit(r)
  \/ TxnComplete(r)

HealthyNext ==
  \/ RunTest
  \/ CancelTest
  \/ \E r \in Runs : StoreStep(r)

\* The page as shipped on a store that does not fail and delivers every event
\* it owes; the clicks on Run Test and Cancel Test are not forced.
FairSpec ==
  /\ Init
  /\ [][HealthyNext]_vars
  /\ \A r \in Runs : WF_vars(StoreStep(r))

\* ---------------------------------------------------------------- properties
TypeOK ==
  /\ dbVersion \in {v + d : v \in {0} \cup TargetVersions, d \in {0, 1}}
  /\ otherPage.req \in {"none", "waiting", "open", "closed"}
  /\ abortController \in {0} \cup Runs
  /\ \A r \in Runs :
       /\ sess[r].pc \in {"idle", "openDb", "abortWait", "close", "done"}
       /\ sess[r].req \in {"none", "queued", "waiting", "upgrade", "success", "error"}
       /\ sess[r].conn \in {"none", "open", "closePending", "closed"}
       /\ sess[r].promise \in {"pending", "resolved", "rejected"}

TerminalTxn == {"complete", "error", "abort"}

CloseLogEntries == {<<"IDBDatabase", "close() starting">>,
                    <<"IDBDatabase", "close() finished">>,
                    <<"IDBDatabase", "close transaction abort">>}

Logged(s, entries) == \E k \in 1..Len(s.log) : s.log[k] \in entries

\* C1: a close() call that went through the close barrier is resolved only
\* once its close transaction has delivered complete, error or abort; while
\* the transaction is live the call is still waiting although the native
\* close call has been issued.
C1_CloseResolvesAfterTerminal ==
  \A r \in Runs : \A i \in 1..Len(sess[r].calls) :
    LET c == sess[r].calls[i]
    IN  /\ c.status = "resolved" => sess[r].txns[c.txn] \in TerminalTxn
        /\ sess[r].txns[c.txn] = "live" => c.status = "waiting" /\ sess[r].nativeCloses >= 1

C1_Witness ==
  \E r \in Runs : \E i \in 1..Len(sess[r].calls) :
    /\ sess[r].calls[i].status = "resolved"
    /\ sess[r].txns[sess[r].calls[i].txn] = "complete"
    /\ sess[r].nativeCloses = 1

\* C2: whenever a session's state is Closed, a close transaction was opened
\* against its connection and none of its transactions is still live.
C2_ClosedHasNoLiveTxn ==
  \A r \in Runs :
    sess[r].state.name = "closed" =>
      /\ Len(sess[r].txns) >= 1
      /\ \A t \in 1..Len(sess[r].txns) : sess[r].txns[t] \in TerminalTxn

C2_Witness ==
  \E r \in Runs : sess[r].state.name = "closed" /\ sess[r].txns = <<"abort">>

\* C3 (as claimed): no close() call on a constructed session ever rejects.
C3_CloseNeverRejects ==
  \A r \in Runs : sess[r].last.status # "rejected"

\* C4 (as claimed): a close() call that follows an earlier close() call on the
\* same session returns immediately, and a session sees at most one close
\* transaction and at most one native close call.
C4_SecondCloseReturnsImmediately ==
  \A r \in Runs :
    /\ sess[r].last.repeat => sess[r].last.status = "returned"
    /\ Len(sess[r].txns) <= 1
    /\ sess[r].nativeCloses <= 1

\* C5: once the state is Closed, a task in which close() is called returns
\* immediately: no transaction is opened, no native close call is issued, no
\* close log entry is written and the state stays Closed.
C5_CloseIdempotentWhenClosed ==
  [][\A r \in Runs :
       (sess[r].state.name = "closed" /\ sess'[r].last.caller # "none") =>
         /\ sess'[r].last.status = "returned"
         /\ sess'[r].txns = sess[r].txns
         /\ sess'[r].calls = sess[r].calls
         /\ sess'[r].nativeCloses = sess[r].nativeCloses
         /\ sess'[r].conn = sess[r].conn
         /\ ~Logged(sess'[r], CloseLogEntries)
         /\ sess'[r].state.name = "closed"]_vars

C5_Witness ==
  \E r \in Runs :
    /\ sess[r].state.name = "closed"
    /\ sess[r].last.status = "returned"
    /\ sess[r].last.repeat

\* C6: the state of a session changes only by construction (to Opened) and
\* from Opened to Closed; a Closed session stays Closed; the state is always
\* exactly one of the variants.
C6_StateOnlyOpenedToClosed ==
  [][\A r \in Runs :
       /\ sess'[r].state.name \in {"none", "opened", "closed"}
       /\ sess[r].state.name = "closed" => sess'[r].state = sess[r].state
       /\ sess'[r].state # sess[r].state =>
            \/ sess[r].state.name = "none" /\ sess'[r].state.name = "opened"
            \/ sess[r].state.name = "opened" /\ sess'[r].state = [name |-> "closed"]]_vars

C6_Witness ==
  \E r \in Runs :
    /\ sess[r].state.name = "closed"
    /\ sess[r].constructed = 1
    /\ Logged(sess[r], {<<"IDBDatabase", "close() finished">>})

\* C7: the promise of openDb is settled by at most one resolve/reject call;
\* it is pending exactly while the request has delivered no terminal signal,
\* resolved with one wrapper exactly after success and rejected with no
\* wrapper exactly after error.
C7_OpenSettlesExactlyOnce ==
  \A r \in Runs :
    /\ sess[r].settleCalls <= 1
    /\ sess[r].constructed <= 1
    /\ sess[r].req \in {"success", "error"} <=> sess[r].promise # "pending"
    /\ sess[r].req \in {"success", "error"} => sess[r].settleCalls = 1
    /\ sess[r].promise = "resolved" <=> sess[r].req = "success"
    /\ sess[r].promise = "resolved" => sess[r].constructed = 1
    /\ sess[r].promise = "rejected" <=> sess[r].req = "error"
    /\ sess[r].promise = "rejected" => sess[r].constructed = 0

C7_Witness ==
  \E r, q \in Runs :
    /\ sess[r].promise = "resolved" /\ sess[r].upgrades = 1
    /\ sess[q].promise = "rejected"

\* C8: after the request's error signal the promise is rejected with the
\* store's error, no wrapper was constructed (no state, no connection
\* listeners), the request was issued once and the run has ended in go()'s
\* catch without a close() call.
C8_OpenErrorRejectsWithStoreError ==
  \A r \in Runs :
    sess[r].req = "error" =>
      /\ sess[r].promise = "rejected"
      /\ sess[r].promiseError = sess[r].reqError
      /\ sess[r].reqError \in {"VersionError", "AbortError"}
      /\ sess[r].state = NoState
      /\ sess[r].constructed = 0
      /\ sess[r].listeners = {}
      /\ sess[r].opens = 1
      /\ ~sess[r].everCalled

C8_Witness ==
  \E r \in Runs :
    /\ sess[r].req = "error" /\ sess[r].promiseError = "VersionError"
    /\ sess[r].goResult = "caught"

\* C9: a request that the store served while fresh (version 0) and that
\* succeeded saw one upgradeneeded, created one container, the one named for
\* the target version, which is in the store from then on, and made a wrapper
\* that, while Opened, has initialDbVersion equal to the target version.
C9_FreshOpenCreatesContainer ==
  \A r \in Runs :
    (sess[r].req = "success" /\ sess[r].oldVersion = 0) =>
      /\ sess[r].upgrades = 1
      /\ sess[r].created = << <<"ost6hhg47t_", sess[r].version>> >>
      /\ <<"ost6hhg47t_", sess[r].version>> \in objectStores
      /\ sess[r].constructed = 1
      /\ sess[r].state.name \in {"opened", "closed"}
      /\ sess[r].state.name = "opened" => sess[r].state.initialDbVersion = sess[r].version

C9_Witness ==
  \E r \in Runs :
    /\ sess[r].req = "success" /\ sess[r].oldVersion = 0
    /\ sess[r].version = 66
    /\ sess[r].state = [name |-> "opened", initialDbVersion |-> 66]
    /\ objectStores = {<<"ost6hhg47t_", 66>>}

\* C10: the containers of the store change only in a task that handles
\* upgradeneeded, which adds the container named for the new version inside
\* the running upgrade transaction, or when the store rolls an aborted
\* upgrade back; createObjectStore is called in no other task.
C10_ContainerOnlyOnUpgrade ==
  [][(objectStores' # objectStores \/ \E r \in Runs : sess'[r].created # sess[r].created) =>
       \/ \E r \in Runs :
            /\ sess[r].req = "waiting" /\ sess'[r].req = "upgrade"
            /\ upgradeTxn'.run = r
            /\ dbVersion' = sess[r].version
            /\ sess'[r].created = Append(sess[r].created, <<"ost6hhg47t_", dbVersion'>>)
            /\ objectStores' = objectStores \cup {<<"ost6hhg47t_", dbVersion'>>}
            /\ \A q \in Runs \ {r} : sess'[q].created = sess[q].created
       \/ /\ upgradeTxn.run # 0 /\ upgradeTxn' = NoTxn
          /\ sess'[upgradeTxn.run].req = "error"
          /\ objectStores' = upgradeTxn.oldStores
          /\ \A q \in Runs : sess'[q].created = sess[q].created]_vars

C10_Witness ==
  \E r, q \in Runs :
    /\ sess[r].created # <<>> /\ sess[r].state.name = "closed"
    /\ sess[q].created # <<>> /\ sess[q].req = "error"
    /\ Cardinality(objectStores) = 1

\* C11: blocked is not terminal: a request that has been notified blocked and
\* has delivered neither success nor error leaves the promise of openDb
\* pending, with no wrapper and the run still in openDb; the task that
\* delivers blocked closes no connection, issues no native close call and
\* changes no wrapper's state.
C11_BlockedIsNotTerminal ==
  [][\A r \in Runs :
       /\ (sess'[r].blocked >= 1 /\ sess'[r].req \notin {"success", "error"}) =>
            /\ sess'[r].promise = "pending"
            /\ sess'[r].settleCalls = 0
            /\ sess'[r].state = NoState
            /\ sess'[r].constructed = 0
            /\ sess'[r].pc = "openDb"
       /\ sess'[r].blocked > sess[r].blocked =>
            /\ Logged(sess'[r], {<<"openDbRequest", "blocked">>})
            /\ \A q \in Runs :
                 /\ sess'[q].conn = sess[q].conn
                 /\ sess'[q].nativeCloses = sess[q].nativeCloses
                 /\ sess'[q].state = sess[q].state
                 /\ sess'[q].txns = sess[q].txns]_vars

C11_Witness ==
  \E r \in Runs, q \in Runs :
    /\ sess[r].blocked = 1 /\ sess[r].req = "waiting" /\ sess[r].promise = "pending"
    /\ sess[q].state.name = "opened" /\ sess[q].conn = "closePending"
    /\ sess[q].txns = <<"live">>
    /\ sess[r].log = << <<"openDbRequest", "blocked">> >>

ConnEntries == {<<"IDBDatabase", kind>> : kind \in DbListeners}

\* C13: a task that delivers a connection-level notification (error, close,
\* abort, versionchange) to an Opened wrapper, and in which neither close()
\* is called nor a close transaction event arrives, only logs that
\* notification: state, initialDbVersion, close calls, transactions and the
\* run's position are unchanged, and the connection is untouched unless the
\* store itself closed it (close).
C13_ConnNotificationsOnlyLogged ==
  [][\A r \in Runs :
       (/\ sess[r].state.name = "opened"
        /\ Logged(sess'[r], ConnEntries)
        /\ sess'[r].txns = sess[r].txns
        /\ sess'[r].last.caller = "none") =>
          /\ sess'[r].state = sess[r].state
          /\ Len(sess'[r].log) = 1
          /\ sess'[r].calls = sess[r].calls
          /\ sess'[r].nativeCloses = sess[r].nativeCloses
          /\ sess'[r].pc = sess[r].pc
          /\ sess'[r].goResult = sess[r].goResult
          /\ sess'[r].promise = sess[r].promise
          /\ (sess'[r].conn = sess[r].conn
              \/ (sess'[r].log = << <<"IDBDatabase", "close">> >> /\ sess'[r].conn = "closed"))]_vars

C13_Witness ==
  \E r \in Runs :
    /\ sess[r].state.name = "opened"
    /\ sess[r].conn = "open"
    /\ sess[r].log = << <<"IDBDatabase", "versionchange">> >>

Blockers(r) == {o \in OthersOf(r) : sess[o].conn \in {"open", "closePending"}}

\* C12: a request for a higher version that waits while another connection is
\* not closed has been notified blocked and is still pending; once no such
\* connection is left, the promise of openDb is eventually resolved after
\* success.
C12_BlockedThenSuccess ==
  /\ [](\A r \in Runs :
          (sess[r].req = "waiting" /\ Blockers(r) # {}) =>
            /\ sess[r].blocked >= 1
            /\ sess[r].oldVersion < sess[r].version
            /\ sess[r].promise = "pending")
  /\ \A r \in Runs :
       (sess[r].req = "waiting" /\ sess[r].blocked >= 1 /\ Blockers(r) = {})
         ~> (sess[r].req = "success" /\ sess[r].promise = "resolved")

C12_Witness ==
  \E r \in Runs :
    /\ sess[r].blocked = 1
    /\ sess[r].req = "success" /\ sess[r].promise = "resolved"
    /\ sess[r].upgrades = 1

\* C14: on a store that does not fail, every close() call of runTheTest on
\* its freshly opened session starts waiting on the barrier and eventually
\* resolves: the close transaction ends with complete, the state is Closed
\* and go() ends without an error.
C14_CloseEventuallyResolves ==
  /\ [](\A r \in Runs : sess[r].last.caller = "driver" => sess[r].last.status = "waiting")
  /\ \A r \in Runs :
       (sess[r].pc = "close")
         ~> (/\ sess[r].pc = "done" /\ sess[r].goResult = "ok"
             /\ sess[r].state.name = "closed"
             /\ sess[r].txns = <<"complete">>
             /\ sess[r].calls[1].status = "resolved")

C14_Witness ==
  \E r \in Runs :
    /\ sess[r].pc = "done" /\ sess[r].goResult = "ok"
    /\ sess[r].txns = <<"complete">>
    /\ Logged(sess[r], {<<"IDBDatabase", "close() finished">>})

CountLog(s, entry) == Cardinality({k \in 1..Len(s.log) : s.log[k] = entry})

\* C15: the first of complete, error and abort of the close transaction
\* resolves the waiting close() call, whichever it is: the state goes from
\* Opened to Closed and 'close() finished' is logged once; a later event of
\* the same transaction changes neither the state, the calls nor the run and
\* logs no 'close() finished'.
C15_BarrierResolvesOnce ==
  [][\A r \in Runs : \A t \in 1..Len(sess[r].txns) :
       (Len(sess'[r].txns) = Len(sess[r].txns) /\ sess'[r].txns[t] # sess[r].txns[t]) =>
         LET i == CallOf(sess[r], t)
         IN  IF sess[r].calls[i].status = "waiting"
             THEN /\ sess[r].state.name = "opened"
                  /\ sess'[r].state = [name |-> "closed"]
                  /\ sess'[r].calls[i].status = "resolved"
                  /\ CountLog(sess'[r], <<"IDBDatabase", "close() finished">>) = 1
             ELSE /\ sess'[r].state = sess[r].state
                  /\ sess'[r].calls = sess[r].calls
                  /\ sess'[r].pc = sess[r].pc
                  /\ sess'[r].goResult = sess[r].goResult
                  /\ CountLog(sess'[r], <<"IDBDatabase", "close() finished">>) = 0
                  /\ CountLog(sess'[r], <<"go", "Test completed">>) = 0]_vars

C15_Witness ==
  \E r \in Runs :
    /\ sess[r].state.name = "closed"
    /\ sess[r].txns = <<"abort">>
    /\ sess[r].log = << <<"IDBDatabase", "close transaction abort">>,
                        <<"IDBDatabase", "abort">> >>

TxnEntry(event) == <<"IDBDatabase", "close transaction " \o event>>

\* C16 (as claimed): every notification delivered in a task, and every state
\* transition, leaves a log entry of that session naming the event.
C16_EveryNotificationLogged ==
  [][\A r \in Runs :
       /\ sess'[r].blocked > sess[r].blocked => Logged(sess'[r], {<<"openDbRequest", "blocked">>})
       /\ sess'[r].upgrades > sess[r].upgrades =>
            Logged(sess'[r], {<<"openDbRequest", "upgradeneeded">>})
       /\ (sess'[r].req = "success" /\ sess[r].req # "success") =>
            Logged(sess'[r], {<<"openDbRequest", "success">>})
       /\ (sess'[r].req = "error" /\ sess[r].req # "error") =>
            Logged(sess'[r], {<<"openDbRequest", "error">>})
       /\ (sess'[r].state.name = "closed" /\ sess[r].state.name # "closed") =>
            Logged(sess'[r], {<<"IDBDatabase", "close() finished">>})
       /\ \A t \in 1..Len(sess[r].txns) :
            (Len(sess'[r].txns) = Len(sess[r].txns) /\ sess'[r].txns[t] # sess[r].txns[t]) =>
              Logged(sess'[r], {TxnEntry(sess'[r].txns[t])})]_vars

\* C17: the task of a close() call that opens the close transaction also
\* issues the native close call before it ends (the connection was open and
\* is close-pending afterwards, the call is waiting on its listeners, the
\* container named for initialDbVersion exists); an event of a close
\* transaction is delivered only after that native close call and to a
\* transaction that has its close() call.
C17_BarrierStepsInOrder ==
  [][\A r \in Runs :
       /\ Len(sess'[r].txns) # Len(sess[r].txns) =>
            /\ sess'[r].txns = Append(sess[r].txns, "live")
            /\ sess[r].conn \in {"none", "open"} /\ sess'[r].conn = "closePending"
            /\ sess'[r].nativeCloses = sess[r].nativeCloses + 1
            /\ sess'[r].state.name = "opened"
            /\ <<"ost6hhg47t_", sess'[r].state.initialDbVersion>> \in objectStores'
            /\ sess'[r].last.status = "waiting"
            /\ sess'[r].calls[Len(sess'[r].calls)] =
                 [caller |-> sess'[r].last.caller, status |-> "waiting",
                  txn |-> Len(sess'[r].txns)]
       /\ \A t \in 1..Len(sess[r].txns) :
            (Len(sess'[r].txns) = Len(sess[r].txns) /\ sess'[r].txns[t] # sess[r].txns[t]) =>
              /\ sess[r].nativeCloses >= 1
              /\ sess[r].conn = "closePending"
              /\ \E i \in 1..Len(sess[r].calls) : sess[r].calls[i].txn = t]_vars

C17_Witness ==
  \E r \in Runs :
    /\ sess[r].txns = <<"live">>
    /\ sess[r].conn = "closePending"
    /\ sess[r].last.status = "waiting"
    /\ sess[r].nativeCloses = 1

\* C18: runTheTest calls close() only in a task after which openDb has
\* resolved and the cancellation has fired, and it has called close() (or is
\* past it) whenever both hold; while it waits for the cancellation, the
\* cancellation has not fired; a cancellation fired while openDb is pending
\* leaves the request and the promise as they are.
C18_CloseAfterOpenAndCancel ==
  [][\A r \in Runs :
       /\ sess'[r].last.caller = "driver" =>
            /\ sess'[r].aborted /\ sess'[r].promise = "resolved"
            /\ sess[r].pc \in {"openDb", "abortWait"}
            /\ sess'[r].pc \in {"close", "done"}
       /\ (sess'[r].aborted /\ sess'[r].promise = "resolved") => sess'[r].pc \in {"close", "done"}
       /\ (sess'[r].pc \in {"close", "done"} /\ sess[r].pc \in {"openDb", "abortWait"}
           /\ sess'[r].promise = "resolved") => sess'[r].last.caller = "driver"
       /\ sess'[r].pc = "abortWait" => ~sess'[r].aborted /\ sess'[r].promise = "resolved"
       /\ (sess'[r].aborted /\ ~sess[r].aborted /\ sess[r].promise = "pending") =>
            /\ sess'[r].promise = "pending" /\ sess'[r].pc = "openDb"
            /\ sess'[r].last.caller = "none"]_vars

C18_Witness ==
  \E r \in Runs :
    /\ sess[r].pc = "close"
    /\ sess[r].log = << <<"openDbRequest", "success">>, <<"IDBDatabase", "close() starting">> >>

\* C19: a started run whose request has delivered neither success nor error
\* is still in openDb, cancelled or not: the promise is pending, no wrapper
\* exists, close() was not called and go() has not ended; the task in which
\* the cancellation fires changes nothing of that request; a close() that
\* waits on its barrier is ended by an event of its transaction only.
C19_OpenCannotBeCancelled ==
  [][\A r \in Runs :
       /\ (sess'[r].pc # "idle" /\ sess'[r].req \notin {"success", "error"}) =>
            /\ sess'[r].pc = "openDb"
            /\ sess'[r].promise = "pending"
            /\ sess'[r].goResult = "none"
            /\ sess'[r].state = NoState
            /\ ~sess'[r].everCalled
       /\ sess'[r].pc = "done" => sess'[r].req \in {"success", "error"}
       /\ (sess'[r].aborted /\ ~sess[r].aborted /\ sess[r].req \notin {"success", "error"}) =>
            /\ sess'[r].req = sess[r].req
            /\ sess'[r].conn = sess[r].conn
            /\ sess'[r].pc = sess[r].pc
            /\ sess'[r].log = <<>>
       /\ (sess[r].pc = "close" /\ sess'[r].txns = sess[r].txns) =>
            /\ sess'[r].pc = "close"
            /\ sess'[r].calls = sess[r].calls
            /\ sess'[r].state = sess[r].state
            /\ sess'[r].conn = sess[r].conn]_vars

C19_Witness ==
  \E r \in Runs :
    /\ sess[r].aborted
    /\ sess[r].req = "waiting" /\ sess[r].blocked = 1
    /\ sess[r].pc = "openDb" /\ sess[r].promise = "pending"

\* C20: in the task that delivers the request's error, runTheTest throws
\* into go() without waiting for the cancellation and without calling
\* close(): go() logs the error, enables the Run Test button, logs the end of
\* the test and ends normally.
C20_OpenFailureCaughtByGo ==
  [][\A r \in Runs :
       (sess'[r].req = "error" /\ sess[r].req # "error") =>
         /\ sess'[r].promise = "rejected"
         /\ sess'[r].reqError # "none" /\ sess'[r].promiseError = sess'[r].reqError
         /\ sess'[r].pc = "done" /\ sess'[r].goResult = "caught"
         /\ sess'[r].log = << <<"openDbRequest", "error">>, <<"go", "ERROR">>,
                              <<"go", "Test completed">> >>
         /\ runButtonEnabled'
         /\ sess'[r].aborted = sess[r].aborted
         /\ sess'[r].last.caller = "none" /\ ~sess'[r].everCalled
         /\ sess'[r].state = NoState]_vars

C20_Witness ==
  \E r \in Runs :
    /\ sess[r].req = "error" /\ ~sess[r].aborted
    /\ sess[r].pc = "done" /\ sess[r].goResult = "caught"
    /\ Logged(sess[r], {<<"go", "ERROR">>})
    /\ runButtonEnabled

\* C21: a close() call whose db.transaction() throws (connection closing or
\* closed, or container missing) rejects with that error: the call issues no
\* native close, opens no transaction, leaves the state Opened as it was and
\* logs 'close() starting' but not 'close() finished'; the driver's call
\* then ends go() through its catch block.  Every close() call made on an
\* Opened session whose connection is not open is such a call.
C21_TransactionThrowRejectsClose ==
  [][\A r \in Runs :
       /\ sess'[r].last.status = "rejected" =>
            /\ sess'[r].last.error \in {"InvalidStateError", "NotFoundError"}
            /\ sess'[r].state.name = "opened" /\ sess'[r].state = sess[r].state
            /\ sess'[r].nativeCloses = sess[r].nativeCloses
            /\ sess'[r].conn = sess[r].conn
            /\ sess'[r].txns = sess[r].txns /\ sess'[r].calls = sess[r].calls
            /\ CountLog(sess'[r], <<"IDBDatabase", "close() starting">>) = 1
            /\ CountLog(sess'[r], <<"IDBDatabase", "close() finished">>) = 0
            /\ sess'[r].last.caller = "driver" =>
                 sess'[r].pc = "done" /\ sess'[r].goResult = "caught"
       /\ (/\ sess'[r].last.caller # "none"
           /\ sess[r].state.name = "opened"
           /\ \/ sess[r].conn # "open"
              \/ <<"ost6hhg47t_", sess[r].state.initialDbVersion>> \notin objectStores) =>
            sess'[r].last.status = "rejected"]_vars

C21_Witness ==
  \E r \in Runs :
    /\ sess[r].last.status = "rejected" /\ sess[r].last.error = "InvalidStateError"
    /\ sess[r].state.name = "opened"
    /\ sess[r].conn = "closed" /\ sess[r].nativeCloses = 0
    /\ Logged(sess[r], {<<"IDBDatabase", "close() starting">>})

\* C22: after every step, an Opened session's initialDbVersion is the version
\* of its connection and the container named for it is in the store; the
\* wrapper is constructed at most once and an Opened state stays the same
\* state while it is Opened; no close() call fails with NotFoundError.
C22_OpenedSessionHasItsContainer ==
  [][\A r \in Runs :
       /\ sess'[r].state.name = "opened" =>
            /\ sess'[r].state.initialDbVersion = sess'[r].connVersion
            /\ <<"ost6hhg47t_", sess'[r].state.initialDbVersion>> \in objectStores'
            /\ sess'[r].req = "success"
       /\ sess'[r].constructed <= 1
       /\ (sess[r].state.name = "opened" /\ sess'[r].state.name = "opened") =>
            sess'[r].state = sess[r].state
       /\ sess'[r].last.error # "NotFoundError"]_vars

C22_Witness ==
  \E r \in Runs :
    /\ sess[r].state = [name |-> "opened", initialDbVersion |-> IDB_VERSION]
    /\ sess[r].oldVersion = 1
    /\ {<<"ost6hhg47t_", 1>>, <<"ost6hhg47t_", IDB_VERSION>>} \subseteq objectStores
    /\ sess[r].last.status = "waiting"

\* C23: no upgrade is marked failed by a name collision: a step that raises
\* the store's version adds exactly the container named for the new version,
\* which was not in the store, and every container in the store is named for
\* a version not above the store's; a rollback restores the containers of
\* the version it returns to.
C23_UpgradeNeverCollides ==
  [][/\ ~upgradeTxn'.failed
     /\ dbVersion' > dbVersion =>
          /\ <<"ost6hhg47t_", dbVersion'>> \notin objectStores
          /\ objectStores' = objectStores \cup {<<"ost6hhg47t_", dbVersion'>>}
     /\ dbVersion' < dbVersion => objectStores' = upgradeTxn.oldStores
     /\ \A name \in objectStores' : name[2] <= dbVersion']_vars

C23_Witness ==
  \E r \in Runs, q \in Runs :
    /\ sess[q].reqError = "AbortError"
    /\ sess[r].req = "upgrade" /\ sess[r].version = sess[q].version
    /\ upgradeTxn.run = r /\ ~upgradeTxn.failed
    /\ <<"ost6hhg47t_", sess[r].version>> \in objectStores

\* C24: the task in which the other page's request at a higher version
\* arrives delivers versionchange to every Opened session with an open
\* connection, which logs it and stays Opened with its connection open, and
\* the request is blocked; the request succeeds only in a state where every
\* session that was constructed has had close() called on it or has had its
\* connection closed by the store.
C24_OpenedSessionBlocksUpgrade ==
  [][/\ (otherPage.req = "none" /\ otherPage'.req = "waiting") =>
          /\ otherPage'.version > dbVersion
          /\ \A q \in Runs :
               (sess[q].state.name = "opened" /\ sess[q].conn = "open") =>
                 /\ Logged(sess'[q], {<<"IDBDatabase", "versionchange">>})
                 /\ sess'[q].state = sess[q].state
                 /\ sess'[q].conn = "open"
                 /\ sess'[q].nativeCloses = sess[q].nativeCloses
                 /\ otherPage'.blocked
     /\ (otherPage'.req = "waiting" /\ \E q \in Runs : sess'[q].conn = "open") =>
          /\ otherPage'.blocked
          /\ dbVersion' < otherPage'.version
     /\ (otherPage.req = "waiting" /\ otherPage'.req = "open") =>
          \A q \in Runs :
            sess[q].state # NoState =>
              \/ sess[q].everCalled
              \/ sess[q].conn = "closed" /\ sess[q].nativeCloses = 0]_vars

C24_Witness ==
  \E q \in Runs :
    /\ otherPage.req = "waiting" /\ otherPage.blocked
    /\ sess[q].state.name = "opened" /\ sess[q].conn = "open"
    /\ ~sess[q].everCalled
    /\ sess[q].log = << <<"IDBDatabase", "versionchange">> >>

\* C25: after every step every started run but the one abortController
\* refers to is aborted; a run is aborted only while abortController refers
\* to it (by cancelTest, or by the runTest that replaces it), runTest leaves
\* the new run un-aborted, and a run's abortPromise is resolved once if the
\* run is aborted and not at all otherwise.
C25_OneLiveCancellationSource ==
  [][/\ \A r \in Runs :
          /\ (sess'[r].pc # "idle" /\ ~sess'[r].aborted) => abortController' = r
          /\ sess'[r].abortResolved = IF sess'[r].aborted THEN 1 ELSE 0
          /\ sess[r].aborted => sess'[r].aborted
          /\ (sess'[r].aborted /\ ~sess[r].aborted) => abortController = r
     /\ abortController' # abortController =>
          /\ abortController # 0 => sess'[abortController].aborted
          /\ sess[abortController'].pc = "idle"
          /\ sess'[abortController'].pc = "openDb"
          /\ ~sess'[abortController'].aborted]_vars

C25_Witness ==
  \E r \in Runs :
    /\ sess[r].aborted /\ sess[r].abortResolved = 1
    /\ abortController \notin {0, r}
    /\ ~sess[abortController].aborted

====
